---- MODULE Spec2Model ----
(***************************************************************************)
(* Task Master for Claude Desktop: provider selection (ai-client-utils.js), *)
(* the parsePRDDirect orchestrator (parse-prd-direct.js) and the two MCP    *)
(* tools registered by server.js, over a model of the file system and of    *)
(* process.env.                                                             *)
(*                                                                          *)
(* JavaScript values are modelled as follows.                               *)
(*   - entries of process.env / session.env: TLA+ strings, with the string  *)
(*     undefined standing for a missing key;                                *)
(*   - tool arguments: tagged records (Undef, Num, Str, Bool, Path);        *)
(*   - a path string: [abs, segs] (leading "/" or not, and its segments);   *)
(*   - texts (file contents, prompts): sequences of string tokens.          *)
(***************************************************************************)
EXTENDS Integers, Sequences, FiniteSets, TLC

VARIABLES processEnv, fs, server, today, call, ret, logged

vars == <<processEnv, fs, server, today, call, ret, logged>>

(***************************************************************************)
(* Bounds of the model.                                                     *)
(***************************************************************************)
MaxNumTasks == 2
MaxDay == 2
MaxDocLen == 3

(***************************************************************************)
(* JavaScript values.                                                       *)
(***************************************************************************)
undefined == "<undefined>"

Undef == [t |-> "undefined"]
Num(n) == [t |-> "number", n |-> n]
NaN == [t |-> "number", nan |-> TRUE]
Str(s) == [t |-> "string", s |-> s]
Bool(b) == [t |-> "boolean", b |-> b]
Path(abs, segs) == [t |-> "path", abs |-> abs, segs |-> segs]

\* the empty string as a path argument
EmptyString == Path(FALSE, <<>>)

isNaN(v) == v.t = "number" /\ "nan" \in DOMAIN v

\* JavaScript truthiness of an argument value (the operand of ! and if).
Truthy(v) ==
  CASE v.t = "undefined" -> FALSE
    [] v.t = "number" -> ~isNaN(v) /\ v.n # 0
    [] v.t = "string" -> v.s # <<>>
    [] v.t = "boolean" -> v.b
    [] v.t = "path" -> v.abs \/ v.segs # <<>>

\* Truthiness of an environment entry: a missing key and "" are falsy.
TruthyEnv(x) == x # undefined /\ x # ""

RECURSIVE JoinWith(_, _)
JoinWith(seq, sep) ==
  IF seq = <<>> THEN ""
  ELSE IF Len(seq) = 1 THEN seq[1]
  ELSE seq[1] \o sep \o JoinWith(Tail(seq), sep)

\* The text of a path value.
PathString(p) == (IF p.abs THEN "/" ELSE "") \o JoinWith(p.segs, "/")

\* String(v) as a template literal `${v}` renders an argument value.
Render(v) ==
  CASE v.t = "undefined" -> "undefined"
    [] v.t = "number" -> IF isNaN(v) THEN "NaN" ELSE ToString(v.n)
    [] v.t = "string" -> JoinWith(v.s, "")
    [] v.t = "boolean" -> IF v.b THEN "true" ELSE "false"
    [] v.t = "path" -> PathString(v)

(***************************************************************************)
(* parseInt(string, 10): skip leading blanks, an optional sign, then the    *)
(* longest prefix of decimal digits; NaN when there is no digit.            *)
(***************************************************************************)
Digits == <<"0", "1", "2", "3", "4", "5", "6", "7", "8", "9">>
IsDigit(c) == \E d \in 1..10 : Digits[d] = c
DigitVal(c) == (CHOOSE d \in 1..10 : Digits[d] = c) - 1

RECURSIVE SkipBlanks(_)
SkipBlanks(s) == IF s # <<>> /\ s[1] = " " THEN SkipBlanks(Tail(s)) ELSE s

RECURSIVE DigitPrefix(_)
DigitPrefix(s) ==
  IF s # <<>> /\ IsDigit(s[1]) THEN <<s[1]>> \o DigitPrefix(Tail(s)) ELSE <<>>

RECURSIVE DecimalValue(_, _)
DecimalValue(ds, acc) ==
  IF ds = <<>> THEN acc ELSE DecimalValue(Tail(ds), 10 * acc + DigitVal(ds[1]))

parseInt(s) ==
  LET u == SkipBlanks(s)
      neg == u # <<>> /\ u[1] = "-"
      body == IF u # <<>> /\ u[1] \in {"-", "+"} THEN Tail(u) ELSE u
      ds == DigitPrefix(body)
  IN IF ds = <<>> THEN NaN
     ELSE Num(IF neg THEN 0 - DecimalValue(ds, 0) ELSE DecimalValue(ds, 0))

\* a number with a fractional part: sign, integer part, fractional digits
Float(neg, n, frac) == [t |-> "number", neg |-> neg, n |-> n, frac |-> frac]

RECURSIVE TrimZeros(_)
TrimZeros(ds) ==
  IF ds # <<>> /\ ds[Len(ds)] = "0" THEN TrimZeros(SubSeq(ds, 1, Len(ds) - 1)) ELSE ds

\* parseFloat(string): skip leading blanks, an optional sign, then digits with
\* an optional fractional part; NaN when there is no digit.
parseFloat(s) ==
  LET u == SkipBlanks(s)
      neg == u # <<>> /\ u[1] = "-"
      body == IF u # <<>> /\ u[1] \in {"-", "+"} THEN Tail(u) ELSE u
      ip == DigitPrefix(body)
      rest == SubSeq(body, Len(ip) + 1, Len(body))
      fp == IF rest # <<>> /\ rest[1] = "." THEN DigitPrefix(Tail(rest)) ELSE <<>>
      n == DecimalValue(ip, 0)
  IN IF ip = <<>> /\ fp = <<>> THEN NaN
     ELSE IF TrimZeros(fp) = <<>> THEN Num(IF neg THEN 0 - n ELSE n)
     ELSE Float(neg, n, TrimZeros(fp))

RECURSIVE NatChars(_)
NatChars(n) ==
  IF n < 10 THEN <<Digits[n + 1]>> ELSE NatChars(n \div 10) \o <<Digits[(n % 10) + 1]>>

\* String(v) of a number, as the characters parseInt and parseFloat are given
NumberChars(v) ==
  IF isNaN(v) THEN <<"N", "a", "N">>
  ELSE IF "frac" \in DOMAIN v
    THEN (IF v.neg THEN <<"-">> ELSE <<>>) \o NatChars(v.n) \o <<".">> \o v.frac
  ELSE IF v.n < 0 THEN <<"-">> \o NatChars(0 - v.n)
  ELSE NatChars(v.n)

(***************************************************************************)
(* Node's path module.                                                      *)
(***************************************************************************)
Cwd == <<"w">>

RECURSIVE NormalizeSegs(_, _)
NormalizeSegs(segs, acc) ==
  IF segs = <<>> THEN acc
  ELSE IF segs[1] = "." THEN NormalizeSegs(Tail(segs), acc)
  ELSE IF segs[1] = ".."
    THEN NormalizeSegs(Tail(segs),
                       IF acc = <<>> THEN acc ELSE SubSeq(acc, 1, Len(acc) - 1))
  ELSE NormalizeSegs(Tail(segs), Append(acc, segs[1]))

isAbsolute(p) == p.abs

\* path.resolve(from, to): the rightmost absolute operand wins, the working
\* directory is prepended when none is absolute, the result is normalised.
resolve(from, to) ==
  IF to.abs THEN Path(TRUE, NormalizeSegs(to.segs, <<>>))
  ELSE IF from.abs THEN Path(TRUE, NormalizeSegs(from.segs \o to.segs, <<>>))
  ELSE Path(TRUE, NormalizeSegs(Cwd \o from.segs \o to.segs, <<>>))

\* path.dirname(p): drop the last segment, textually.
dirname(p) ==
  IF p.segs = <<>> THEN p ELSE Path(p.abs, SubSeq(p.segs, 1, Len(p.segs) - 1))

\* path.basename(p)
basename(p) == IF p.segs = <<>> THEN "" ELSE p.segs[Len(p.segs)]

\* path.join(p, ...names) for a relative-free base (no ".." climbing above a
\* relative base occurs in the calls of this program).
join(p, names) == Path(p.abs, NormalizeSegs(p.segs \o names, <<>>))

(***************************************************************************)
(* The file system: a function from the existing nodes (normalised absolute *)
(* segment lists) to a directory or a file with its text.                   *)
(***************************************************************************)
Dir == [kind |-> "dir", content |-> <<>>]
File(text) == [kind |-> "file", content |-> text]

\* The node a path string denotes for the operating system.
FsNode(p) == NormalizeSegs(IF p.abs THEN p.segs ELSE Cwd \o p.segs, <<>>)

Prefixes(n) == {SubSeq(n, 1, k) : k \in 0..Len(n)}

existsSync(f, p) == FsNode(p) \in DOMAIN f

\* fs.readFileSync(p, 'utf8')
readFileSync(f, p) ==
  LET n == FsNode(p)
  IN IF n \notin DOMAIN f
       THEN [threw |-> TRUE,
             message |-> "ENOENT: no such file or directory, open '" \o PathString(p) \o "'"]
     ELSE IF f[n].kind = "dir"
       THEN [threw |-> TRUE,
             message |-> "EISDIR: illegal operation on a directory, read"]
     ELSE [threw |-> FALSE, text |-> f[n].content]

\* fs.mkdirSync(p, { recursive: true })
mkdirSync(f, p) ==
  LET n == FsNode(p)
      blocked == \E q \in Prefixes(n) : q \in DOMAIN f /\ f[q].kind = "file"
      made == Prefixes(n) \ DOMAIN f
  IN IF blocked
       THEN [threw |-> TRUE, fs |-> f,
             message |-> "ENOTDIR: not a directory, mkdir '" \o PathString(p) \o "'"]
     ELSE [threw |-> FALSE,
           fs |-> [q \in DOMAIN f \cup made |-> IF q \in made THEN Dir ELSE f[q]]]

\* fs.writeFileSync(p, text, 'utf8')
writeFileSync(f, p, text) ==
  LET n == FsNode(p)
      parent == IF n = <<>> THEN n ELSE SubSeq(n, 1, Len(n) - 1)
  IN IF n \in DOMAIN f /\ f[n].kind = "dir"
       THEN [threw |-> TRUE, fs |-> f,
             message |-> "EISDIR: illegal operation on a directory, open '" \o PathString(p) \o "'"]
     ELSE IF parent \notin DOMAIN f
       THEN [threw |-> TRUE, fs |-> f,
             message |-> "ENOENT: no such file or directory, open '" \o PathString(p) \o "'"]
     ELSE IF f[parent].kind = "file"
       THEN [threw |-> TRUE, fs |-> f,
             message |-> "ENOTDIR: not a directory, open '" \o PathString(p) \o "'"]
     ELSE [threw |-> FALSE,
           fs |-> [q \in DOMAIN f \cup {n} |-> IF q = n THEN File(text) ELSE f[q]]]

\* new Date().toISOString().split('T')[0]
DateString(d) == "2025-04-0" \o ToString(d)

(***************************************************************************)
(* ai-client-utils.js                                                       *)
(***************************************************************************)
\* session?.env?.KEY
SessionEnv(session, key) ==
  IF "env" \in DOMAIN session THEN session.env[key] ELSE undefined

MockAnthropicClient(apiKey, defaultHeaders) ==
  [class |-> "MockAnthropicClient",
   options |-> [apiKey |-> apiKey, extra |-> defaultHeaders]]

MockPerplexityClient(apiKey, baseURL) ==
  [class |-> "MockPerplexityClient",
   options |-> [apiKey |-> apiKey, extra |-> baseURL]]

\* session?.env?.KEY of an entry the model keeps as a value
SessionValue(session, key) ==
  IF "env" \in DOMAIN session THEN session.env[key] ELSE Undef

Returned(value, lines) == [threw |-> FALSE, value |-> value, log |-> lines]
Thrown(message, lines) == [threw |-> TRUE, message |-> message, log |-> lines]

Info(text) == [level |-> "info", text |-> text]
Warn(text) == [level |-> "warn", text |-> text]
Error(text) == [level |-> "error", text |-> text]

\* cond1 || cond2 of a mutated build that requires both flags.
usingClaudeDesktop_And(env, session) ==
  env.CLAUDE_DESKTOP = "true" /\ SessionEnv(session, "CLAUDE_DESKTOP") = "true"

\* process.env.CLAUDE_DESKTOP === 'true' || session?.env?.CLAUDE_DESKTOP === 'true'
usingClaudeDesktop(env, session) ==
  env.CLAUDE_DESKTOP = "true" \/ SessionEnv(session, "CLAUDE_DESKTOP") = "true"

\* a || b on two environment entries
OrElse(a, b) == IF TruthyEnv(a) THEN a ELSE b

ChunkSize == 20

\* lines 142-151: generateResponse returns the sentinel, whatever the params
generateResponse(params) ==
  <<"N", "O", "T", "_", "I", "M", "P", "L", "E", "M", "E", "N", "T", "E", "D">>

\* a split that keeps only the chunks of full length (/.{20}/g)
Chunks_FullOnly(chars) ==
  [k \in 1..(Len(chars) \div ChunkSize) |->
     JoinWith(SubSeq(chars, (k - 1) * ChunkSize + 1, k * ChunkSize), "")]

\* line 169: response.match(/.{1,20}/g) || [] on a text of one line
Chunks(chars) ==
  [k \in 1..((Len(chars) + ChunkSize - 1) \div ChunkSize) |->
     JoinWith(SubSeq(chars, (k - 1) * ChunkSize + 1,
                     IF k * ChunkSize < Len(chars) THEN k * ChunkSize ELSE Len(chars)),
              "")]

\* lines 153-209: the async iterator before its first next()
createMockStream(client, params) ==
  [kind |-> "stream", pc |-> "content_block_start",
   response |-> generateResponse(params),
   chunks |-> <<>>, events |-> <<>>]

\* lines 157-207: the generator runs to its next yield, or returns
StreamStep(stream, params) ==
  CASE stream.pc = "content_block_start" ->
         [stream EXCEPT
            !.events = @ \o <<[type |-> "content_block_start",
                               content_block |-> [type |-> "text", id |-> "mock-block-id"]]>>,
            !.chunks = Chunks(stream.response),
            !.pc = "chunks"]
    [] stream.pc = "chunks" /\ stream.chunks # <<>> ->
         [stream EXCEPT
            !.events = @ \o <<[type |-> "content_block_delta",
                               delta |-> [text |-> Head(stream.chunks)],
                               index |-> 0]>>,
            !.chunks = Tail(@)]
    [] stream.pc = "chunks" /\ stream.chunks = <<>> ->
         [stream EXCEPT
            !.events = @ \o <<[type |-> "content_block_stop",
                               content_block |-> [type |-> "text", id |-> "mock-block-id"]]>>,
            !.pc = "message_stop"]
    [] stream.pc = "message_stop" ->
         [stream EXCEPT
            !.events = @ \o <<[type |-> "message_stop",
                               message |-> [id |-> "mock-message-id", type |-> "message",
                                            role |-> "assistant",
                                            content |-> <<[type |-> "text",
                                                           text |-> JoinWith(stream.response, "")]>>,
                                            model |-> OrElse(params.model, "claude-3-7-sonnet-20250219"),
                                            stop_reason |-> "end_turn"]]>>,
            !.pc = "return"]
    [] stream.pc = "return" -> [stream EXCEPT !.pc = "done"]

\* a keyed client that answers with the reply of the provider
createMessages_Keyed(client, params) ==
  IF Truthy(params.stream) THEN createMockStream(client, params)
  ELSE [kind |-> "message", id |-> "mock-message-id", type |-> "message",
        role |-> "assistant",
        content |-> <<[type |-> "text",
                       text |-> IF client.options.apiKey = undefined
                                  THEN JoinWith(generateResponse(params), "")
                                ELSE "reply of the provider"]>>,
        model |-> OrElse(params.model, "claude-3-7-sonnet-20250219"),
        stop_reason |-> "end_turn",
        usage |-> [input_tokens |-> 1000, output_tokens |-> 2000]]

\* lines 115-140
createMessages(client, params) ==
  IF Truthy(params.stream) THEN createMockStream(client, params)
  ELSE [kind |-> "message", id |-> "mock-message-id", type |-> "message",
        role |-> "assistant",
        content |-> <<[type |-> "text", text |-> JoinWith(generateResponse(params), "")]>>,
        model |-> OrElse(params.model, "claude-3-7-sonnet-20250219"),
        stop_reason |-> "end_turn",
        usage |-> [input_tokens |-> 1000, output_tokens |-> 2000]]

\* lines 223-248
createCompletion(client, params) ==
  [kind |-> "completion",
   choices |-> <<[message |-> [content |-> "NOT_IMPLEMENTED", role |-> "assistant"],
                  finish_reason |-> "stop", index |-> 0]>>,
   id |-> "mock-completion-id",
   model |-> OrElse(params.model, "sonar-medium-online"),
   usage |-> [prompt_tokens |-> 1000, completion_tokens |-> 2000,
              total_tokens |-> 3000]]

AnthropicKeyMissing ==
  "ANTHROPIC_API_KEY not found in session environment or process.env. Set CLAUDE_DESKTOP=true to use Claude Desktop mode."
PerplexityKeyMissing ==
  "PERPLEXITY_API_KEY not found in session environment or process.env. Set CLAUDE_DESKTOP=true to use Claude Desktop mode."
NoModelsAvailable ==
  "No AI models available. Please check your API keys or enable Claude Desktop mode."

getAnthropicClientForMCP(env, session) ==
  IF usingClaudeDesktop(env, session)
    THEN Returned(MockAnthropicClient(undefined, undefined),
                  <<Info("Using Claude Desktop mode with mock Anthropic client")>>)
  ELSE LET apiKey == OrElse(SessionEnv(session, "ANTHROPIC_API_KEY"),
                            env.ANTHROPIC_API_KEY)
       IN IF ~TruthyEnv(apiKey)
            THEN Thrown(AnthropicKeyMissing,
                        <<Error("Failed to initialize Anthropic client: " \o AnthropicKeyMissing)>>)
          ELSE Returned(MockAnthropicClient(apiKey, "anthropic-beta: output-128k-2025-02-19"),
                        <<Info("Using Anthropic API with provided key")>>)

getPerplexityClientForMCP(env, session) ==
  IF usingClaudeDesktop(env, session)
    THEN Returned(MockPerplexityClient(undefined, undefined),
                  <<Info("Using Claude Desktop mode with mock Perplexity client")>>)
  ELSE LET apiKey == OrElse(SessionEnv(session, "PERPLEXITY_API_KEY"),
                            env.PERPLEXITY_API_KEY)
       IN IF ~TruthyEnv(apiKey)
            THEN Thrown(PerplexityKeyMissing,
                        <<Error("Failed to initialize Perplexity client: " \o PerplexityKeyMissing)>>)
          ELSE Returned(MockPerplexityClient(apiKey, "https://api.perplexity.ai"),
                        <<Info("Using Perplexity API with provided key")>>)

\* const { requiresResearch = false, claudeOverloaded = false } = options
Option(options, name) ==
  IF name \in DOMAIN options /\ options[name].t # "undefined"
    THEN options[name] ELSE Bool(FALSE)

\* a build that hands out the client without looking for a credential
DefaultToClaude_Unchecked(env, session, before) ==
  Returned([type |-> "claude", client |-> MockAnthropicClient(undefined, undefined)],
           before)

\* lines 397-404: the default to Claude, its failure replaced by the
\* selector's own error
DefaultToClaude(env, session, before) ==
  LET c == getAnthropicClientForMCP(env, session)
  IN IF c.threw
       THEN Thrown(NoModelsAvailable,
                   before \o c.log \o <<Error("Claude not available: " \o c.message)>>)
     ELSE Returned([type |-> "claude", client |-> c.value], before \o c.log)

\* a build that takes the research provider whenever its credential is there
ResearchFirst_IgnoringRequest(env, session, options) ==
  IF TruthyEnv(OrElse(SessionEnv(session, "PERPLEXITY_API_KEY"), env.PERPLEXITY_API_KEY))
    THEN LET p == getPerplexityClientForMCP(env, session)
         IN Returned([type |-> "perplexity", client |-> p.value], p.log)
  ELSE DefaultToClaude(env, session, <<>>)

\* lines 386-395: the research branch; a failure of the construction is
\* logged and selection goes on with the default
ResearchFirst(env, session, options) ==
  IF Truthy(Option(options, "requiresResearch"))
     /\ TruthyEnv(OrElse(SessionEnv(session, "PERPLEXITY_API_KEY"),
                         env.PERPLEXITY_API_KEY))
    THEN LET p == getPerplexityClientForMCP(env, session)
         IN IF p.threw
              THEN DefaultToClaude(env, session,
                     p.log \o <<Warn("Perplexity not available: " \o p.message)>>)
            ELSE Returned([type |-> "perplexity", client |-> p.value], p.log)
  ELSE DefaultToClaude(env, session, <<>>)

\* a build that looks at the research request before the mode
getBestAvailableAIModel_ResearchBeforeMode(env, session, options) ==
  ResearchFirst(env, session, options)

getBestAvailableAIModel(env, session, options) ==
  IF usingClaudeDesktop(env, session)
    THEN LET c == getAnthropicClientForMCP(env, session)
             lines == <<Info("Using Claude Desktop mode for AI operations")>> \o c.log
         IN IF c.threw THEN Thrown(c.message, lines)
            ELSE Returned([type |-> "claude", client |-> c.value], lines)
  ELSE ResearchFirst(env, session, options)

DefaultMaxTokens == 64000

\* lines 338-342
DEFAULT_MODEL_CONFIG ==
  [model |-> "claude-3-7-sonnet-20250219",
   maxTokens |-> Num(DefaultMaxTokens),
   temperature |-> Float(FALSE, 0, <<"2">>)]

\* the characters of (x || d) where x is an environment entry and d a number
OrDefaultChars(x, d) == IF Truthy(x) THEN x.s ELSE NumberChars(d)

\* lines 350-357
getModelConfig(session, defaults) ==
  [model |-> OrElse(SessionEnv(session, "MODEL"), defaults.model),
   maxTokens |-> parseInt(OrDefaultChars(SessionValue(session, "MAX_TOKENS"),
                                         defaults.maxTokens)),
   temperature |-> parseFloat(OrDefaultChars(SessionValue(session, "TEMPERATURE"),
                                             defaults.temperature))]

(***************************************************************************)
(* parse-prd-direct.js                                                      *)
(***************************************************************************)
DefaultNumTasks == 10

SystemPromptHead ==
  "You are an AI assistant tasked with breaking down a Product Requirements Document (PRD) into a set of sequential development tasks. Your goal is to create exactly "
SystemPromptSchema ==
  " well-structured, actionable development tasks based on the PRD provided. [...] Guidelines for creating tasks: 1. Number tasks from 1 to "
SystemPromptRules ==
  ". 2. Make each task atomic and focused on a single responsibility. [...] \"metadata\": { \"projectName\": \"PRD Implementation\", \"totalTasks\": "
SystemPromptTail ==
  "\" } } [...] Your response should be valid JSON only, with no additional explanation or comments."

\* a build in which the generator claims to have produced the tasks itself
generateTasksFromPRD_Done(prdContent, prdPath, numTasks, day) ==
  [shouldBeHandledByClaudeDirectly |-> FALSE,
   systemPrompt |-> <<>>,
   userPrompt |-> <<>>,
   log |-> <<>>]

\* a build that quotes only the first line of the document
generateTasksFromPRD_FirstLine(prdContent, prdPath, numTasks, day) ==
  [shouldBeHandledByClaudeDirectly |-> TRUE,
   systemPrompt |->
     <<SystemPromptHead, Render(numTasks), SystemPromptSchema, Render(numTasks),
       SystemPromptRules, Render(numTasks), ", \"sourceFile\": \"",
       PathString(prdPath), "\", \"generatedAt\": \"", DateString(day),
       SystemPromptTail>>,
   userPrompt |->
     <<"Here's the Product Requirements Document (PRD) to break down into ",
       Render(numTasks), " tasks:\n\n">>
     \o (IF prdContent = <<>> THEN <<>> ELSE <<prdContent[1]>>),
   log |-> <<>>]

generateTasksFromPRD(prdContent, prdPath, numTasks, day) ==
  [shouldBeHandledByClaudeDirectly |-> TRUE,
   systemPrompt |->
     <<SystemPromptHead, Render(numTasks), SystemPromptSchema, Render(numTasks),
       SystemPromptRules, Render(numTasks), ", \"sourceFile\": \"",
       PathString(prdPath), "\", \"generatedAt\": \"", DateString(day),
       SystemPromptTail>>,
   userPrompt |->
     <<"Here's the Product Requirements Document (PRD) to break down into ",
       Render(numTasks), " tasks:\n\n">> \o prdContent,
   log |->
     <<Info("Generating " \o Render(numTasks) \o " tasks from PRD at " \o PathString(prdPath)),
       Info("Claude is analyzing the PRD and generating tasks...")>>]

\* a build whose failures also carry a data object
Failure_WithData(code, message) ==
  [success |-> FALSE,
   data |-> [message |-> message],
   error |-> [code |-> code, message |-> message],
   fromCache |-> FALSE]

Failure(code, message) ==
  [success |-> FALSE,
   error |-> [code |-> code, message |-> message],
   fromCache |-> FALSE]

\* a catch-all that reports every exception under the fallback message
CaughtParsePRD_Unknown(message, env, f, lines) ==
  [ret |-> Failure("PARSE_PRD_ERROR", "Unknown error parsing PRD"),
   env |-> env, fs |-> f,
   log |-> lines \o <<Error("Error parsing PRD: " \o message)>>]

\* lines 738-748: the catch-all of parsePRDDirect
CaughtParsePRD(message, env, f, lines) ==
  [ret |-> Failure("PARSE_PRD_ERROR",
                   IF message # "" THEN message ELSE "Unknown error parsing PRD"),
   env |-> env, fs |-> f,
   log |-> lines \o <<Error("Error parsing PRD: " \o message)>>]

\* a build without the isNaN fallback of lines 654-657
ResolveNumTasks_KeepNaN(args) ==
  IF ~Truthy(args.numTasks) THEN [numTasks |-> Num(DefaultNumTasks), log |-> <<>>]
  ELSE [numTasks |-> IF args.numTasks.t = "string"
                       THEN parseInt(args.numTasks.s) ELSE args.numTasks,
        log |-> <<>>]

\* a build that logs the warning whenever it uses the default
ResolveNumTasks_WarnOnDefault(args) ==
  LET parsed == IF ~Truthy(args.numTasks) THEN NaN
                ELSE IF args.numTasks.t = "string"
                  THEN parseInt(args.numTasks.s) ELSE args.numTasks
  IN IF isNaN(parsed)
       THEN [numTasks |-> Num(DefaultNumTasks),
             log |-> <<Warn("Invalid numTasks value: " \o Render(args.numTasks)
                            \o ". Using default: 10")>>]
     ELSE [numTasks |-> parsed, log |-> <<>>]

\* lines 647-658: the number of tasks and whether the fallback was logged
ResolveNumTasks(args) ==
  IF ~Truthy(args.numTasks) THEN [numTasks |-> Num(DefaultNumTasks), log |-> <<>>]
  ELSE LET parsed == IF args.numTasks.t = "string"
                       THEN parseInt(args.numTasks.s) ELSE args.numTasks
       IN IF isNaN(parsed)
            THEN [numTasks |-> Num(DefaultNumTasks),
                  log |-> <<Warn("Invalid numTasks value: " \o Render(args.numTasks)
                                 \o ". Using default: 10")>>]
          ELSE [numTasks |-> parsed, log |-> <<>>]

\* lines 700-717: JSON.stringify(sampleOutput, null, 2)
SampleOutput(numTasks, inputPath, day) ==
  <<"{ \"tasks\": [">>
  \o [i \in 1..(IF numTasks.n > 0 THEN numTasks.n ELSE 0) |->
        "{ \"id\": " \o ToString(i) \o ", \"title\": \"Task " \o ToString(i)
        \o "\", \"status\": \"pending\", \"dependencies\": [], \"priority\": \"medium\" }"]
  \o <<"], \"metadata\": { \"projectName\": \"PRD Implementation\", \"totalTasks\": ",
       Render(numTasks), ", \"sourceFile\": \"", PathString(inputPath),
       "\", \"generatedAt\": \"", DateString(day), "\" } }">>

\* lines 660-736: from the append flag to the returned envelope
\* (the model configuration of line 669 is read from the session and handed to
\* generateTasksFromPRD, which does not look at it)
BuildAndReturn(env, f, day, args, inputPath, outputPath, prdContent, nt, lines) ==
  LET numTasks == nt.numTasks
      append == Truthy(args.append)
      lines2 == lines \o nt.log
                \o <<Info("Preparing to parse PRD from " \o PathString(inputPath)
                          \o " and output to " \o PathString(outputPath) \o " with "
                          \o Render(numTasks) \o " tasks, append mode: "
                          \o Render(Bool(append)))>>
      result == generateTasksFromPRD(prdContent, inputPath, numTasks, day)
      lines3 == lines2 \o result.log
  IN IF result.shouldBeHandledByClaudeDirectly
       THEN [ret |-> [success |-> TRUE,
                      data |-> [message |-> "PRD parsing should be handled directly by Claude",
                                shouldBeHandledByClaudeDirectly |-> TRUE,
                                systemPrompt |-> result.systemPrompt,
                                userPrompt |-> result.userPrompt,
                                outputPath |-> outputPath,
                                numTasks |-> numTasks,
                                append |-> append],
                      fromCache |-> FALSE],
             env |-> env, fs |-> f, log |-> lines3]
     ELSE LET w == writeFileSync(f, outputPath, SampleOutput(numTasks, inputPath, day))
              message == "Successfully " \o (IF append THEN "appended" ELSE "generated")
                         \o " " \o Render(numTasks) \o " tasks from PRD"
          IN IF w.threw THEN CaughtParsePRD(w.message, env, f, lines3)
             ELSE [ret |-> [success |-> TRUE,
                            data |-> [message |-> message,
                                      taskCount |-> numTasks,
                                      outputPath |-> outputPath,
                                      appended |-> append],
                            fromCache |-> FALSE],
                   env |-> env, fs |-> w.fs, log |-> lines3 \o <<Info(message)>>]

\* a build that resolves a relative input against the working directory
InputPath_FromCwd(args) ==
  IF isAbsolute(args.input) THEN args.input ELSE resolve(EmptyString, args.input)

\* lines 611-614
InputPath(args) ==
  IF isAbsolute(args.input) THEN args.input
  ELSE resolve(args.projectRoot, args.input)

\* a build that passes every output through path.resolve
OutputPath_AlwaysResolved(args) == resolve(args.projectRoot, args.output)

\* lines 636-638
OutputPath(args) ==
  IF isAbsolute(args.output) THEN args.output
  ELSE resolve(args.projectRoot, args.output)

\* a build that makes the output directory before it looks for the input
ResolveAndRead_DirFirst(env, f, day, args, lines) ==
  LET projectRoot == args.projectRoot
      inputPath == InputPath(args)
      outputPath == OutputPath(args)
      outputDir == dirname(outputPath)
      m == IF existsSync(f, outputDir)
             THEN [threw |-> FALSE, fs |-> f]
           ELSE mkdirSync(f, outputDir)
  IN IF m.threw THEN CaughtParsePRD(m.message, env, f, lines)
     ELSE IF ~existsSync(m.fs, inputPath)
       THEN LET errorMessage == "Input file not found: " \o PathString(inputPath)
            IN [ret |-> [success |-> FALSE,
                         error |-> [code |-> "INPUT_FILE_NOT_FOUND",
                                    message |-> errorMessage,
                                    details |-> <<"Checked path: ", PathString(inputPath),
                                                  "\nProject root: ", PathString(projectRoot),
                                                  "\nInput argument: ", PathString(args.input)>>],
                         fromCache |-> FALSE],
                env |-> env, fs |-> m.fs, log |-> lines \o <<Error(errorMessage)>>]
     ELSE LET r == readFileSync(m.fs, inputPath)
          IN IF r.threw THEN CaughtParsePRD(r.message, env, m.fs, lines)
             ELSE BuildAndReturn(env, m.fs, day, args, inputPath, outputPath,
                                 r.text, ResolveNumTasks(args), lines)

\* lines 610-658: paths, the input file, the output directory, numTasks
ResolveAndRead(env, f, day, args, lines) ==
  LET projectRoot == args.projectRoot
      inputPath == InputPath(args)
  IN IF ~existsSync(f, inputPath)
       THEN LET errorMessage == "Input file not found: " \o PathString(inputPath)
            IN [ret |-> [success |-> FALSE,
                         error |-> [code |-> "INPUT_FILE_NOT_FOUND",
                                    message |-> errorMessage,
                                    details |-> <<"Checked path: ", PathString(inputPath),
                                                  "\nProject root: ", PathString(projectRoot),
                                                  "\nInput argument: ", PathString(args.input)>>],
                         fromCache |-> FALSE],
                env |-> env, fs |-> f, log |-> lines \o <<Error(errorMessage)>>]
     ELSE LET r == readFileSync(f, inputPath)
          IN IF r.threw THEN CaughtParsePRD(r.message, env, f, lines)
             ELSE LET prdContent == r.text
                      lines2 == lines \o <<Info("Read " \o ToString(Len(prdContent))
                                               \o " bytes from " \o PathString(inputPath))>>
                      outputPath == OutputPath(args)
                      outputDir == dirname(outputPath)
                      m == IF existsSync(f, outputDir)
                             THEN [threw |-> FALSE, fs |-> f]
                           ELSE mkdirSync(f, outputDir)
                      lines3 == IF existsSync(f, outputDir) THEN lines2
                                ELSE lines2 \o <<Info("Creating output directory: "
                                                      \o PathString(outputDir))>>
                  IN IF m.threw THEN CaughtParsePRD(m.message, env, f, lines3)
                     ELSE BuildAndReturn(env, m.fs, day, args, inputPath, outputPath,
                                         prdContent, ResolveNumTasks(args), lines3)

\* lines 579-608 of a build that checks the input path before the project root
ValidateArgs_InputFirst(args) ==
  IF ~Truthy(args.input)
    THEN [ok |-> FALSE, code |-> "MISSING_INPUT_PATH",
          message |-> "Input file path is required for parsePRDDirect"]
  ELSE IF ~Truthy(args.projectRoot)
    THEN [ok |-> FALSE, code |-> "MISSING_PROJECT_ROOT",
          message |-> "Project root is required for parsePRDDirect"]
  ELSE IF ~Truthy(args.output)
    THEN [ok |-> FALSE, code |-> "MISSING_OUTPUT_PATH",
          message |-> "Output file path is required for parsePRDDirect"]
  ELSE [ok |-> TRUE, code |-> "", message |-> ""]

\* lines 579-608: the three required parameters, in order
ValidateArgs(args) ==
  IF ~Truthy(args.projectRoot)
    THEN [ok |-> FALSE, code |-> "MISSING_PROJECT_ROOT",
          message |-> "Project root is required for parsePRDDirect"]
  ELSE IF ~Truthy(args.input)
    THEN [ok |-> FALSE, code |-> "MISSING_INPUT_PATH",
          message |-> "Input file path is required for parsePRDDirect"]
  ELSE IF ~Truthy(args.output)
    THEN [ok |-> FALSE, code |-> "MISSING_OUTPUT_PATH",
          message |-> "Output file path is required for parsePRDDirect"]
  ELSE [ok |-> TRUE, code |-> "", message |-> ""]

\* a build without the assignment of line 561
parsePRDDirect_FlagUntouched(env, f, day, args, session) ==
  LET lines0 == <<Info("Parsing PRD document with args: " \o ToString(args))>>
      aiClient == getAnthropicClientForMCP(env, session)
      lines1 == lines0 \o aiClient.log
      v == ValidateArgs(args)
  IN IF aiClient.threw
       THEN [ret |-> Failure("AI_CLIENT_ERROR",
                             "Cannot initialize AI client: " \o aiClient.message),
             env |-> env, fs |-> f,
             log |-> lines1 \o <<Error("Failed to initialize AI client: "
                                       \o aiClient.message)>>]
     ELSE IF ~v.ok
       THEN [ret |-> Failure(v.code, v.message), env |-> env, fs |-> f,
             log |-> lines1 \o <<Error(v.message)>>]
     ELSE ResolveAndRead(env, f, day, args, lines1)

\* a build that initializes the client before line 561 has set the flag
parsePRDDirect_ClientBeforeFlag(env, f, day, args, session) ==
  LET lines0 == <<Info("Parsing PRD document with args: " \o ToString(args))>>
      env1 == [env EXCEPT !.CLAUDE_DESKTOP = "true"]
      aiClient == getAnthropicClientForMCP(env, session)
      lines1 == lines0 \o aiClient.log
      v == ValidateArgs(args)
  IN IF aiClient.threw
       THEN [ret |-> Failure("AI_CLIENT_ERROR",
                             "Cannot initialize AI client: " \o aiClient.message),
             env |-> env1, fs |-> f,
             log |-> lines1 \o <<Error("Failed to initialize AI client: "
                                       \o aiClient.message)>>]
     ELSE IF ~v.ok
       THEN [ret |-> Failure(v.code, v.message), env |-> env1, fs |-> f,
             log |-> lines1 \o <<Error(v.message)>>]
     ELSE ResolveAndRead(env1, f, day, args, lines1)

parsePRDDirect(env, f, day, args, session) ==
  LET lines0 == <<Info("Parsing PRD document with args: " \o ToString(args))>>
      env1 == [env EXCEPT !.CLAUDE_DESKTOP = "true"]
      aiClient == getAnthropicClientForMCP(env1, session)
      lines1 == lines0 \o aiClient.log
      v == ValidateArgs(args)
  IN IF aiClient.threw
       THEN [ret |-> Failure("AI_CLIENT_ERROR",
                             "Cannot initialize AI client: " \o aiClient.message),
             env |-> env1, fs |-> f,
             log |-> lines1 \o <<Error("Failed to initialize AI client: "
                                       \o aiClient.message)>>]
     ELSE IF ~v.ok
       THEN [ret |-> Failure(v.code, v.message), env |-> env1, fs |-> f,
             log |-> lines1 \o <<Error(v.message)>>]
     ELSE ResolveAndRead(env1, f, day, args, lines1)

(***************************************************************************)
(* server.js: the two tools                                                 *)
(***************************************************************************)
\* lines 90-125: execute of parse_prd
parse_prd_execute(env, f, day, args, session) ==
  LET lines0 == <<Info("Parsing PRD with args: " \o ToString(args))>>
      r == parsePRDDirect(env, f, day, args, session)
      result == r.ret
  IN IF result.success
        /\ "shouldBeHandledByClaudeDirectly" \in DOMAIN result.data
        /\ result.data.shouldBeHandledByClaudeDirectly
       THEN [ret |-> [success |-> TRUE,
                      data |-> [message |-> "This task should be handled directly by Claude's capabilities",
                                systemPrompt |-> result.data.systemPrompt,
                                userPrompt |-> result.data.userPrompt,
                                outputPath |-> result.data.outputPath,
                                numTasks |-> result.data.numTasks,
                                append |-> result.data.append]],
             env |-> r.env, fs |-> r.fs,
             log |-> lines0 \o r.log
                     \o <<Info("Request should be handled directly by Claude's capabilities")>>]
     ELSE [ret |-> result, env |-> r.env, fs |-> r.fs, log |-> lines0 \o r.log]

ExamplePrd == <<"# Example Product Requirements Document", "## Project Overview",
                "## Core Features", "## Technical Requirements", "## User Interface",
                "## Milestones", "## Constraints">>

\* lines 213-220: JSON.stringify of the empty task collection
EmptyTasksJson(projectRoot, day) ==
  <<"{ \"tasks\": [], \"metadata\": { \"projectName\": \"", basename(projectRoot),
    "\", \"totalTasks\": 0, \"generatedAt\": \"", DateString(day), "\" } }">>

\* lines 231-239: the catch block of initialize_project
CaughtInitialize(message, f, lines) ==
  [ret |-> [success |-> FALSE, error |-> [message |-> message]],
   fs |-> f,
   log |-> lines \o <<Error("Error initializing project: " \o message)>>]

InitializedMessage == "Project initialized successfully."

\* if (!fs.existsSync(dir)) fs.mkdirSync(dir, { recursive: true })
EnsureDir(f, dir) ==
  IF existsSync(f, dir) THEN [threw |-> FALSE, fs |-> f, log |-> <<>>]
  ELSE LET m == mkdirSync(f, dir)
       IN IF m.threw THEN [threw |-> TRUE, fs |-> f, message |-> m.message, log |-> <<>>]
          ELSE [threw |-> FALSE, fs |-> m.fs,
                log |-> <<Info("Created directory: " \o PathString(dir))>>]

\* a build that writes the file whether or not it exists
EnsureFile_Overwrite(f, file, text, what) ==
  LET w == writeFileSync(f, file, text)
  IN IF w.threw THEN [threw |-> TRUE, fs |-> f, message |-> w.message, log |-> <<>>]
     ELSE [threw |-> FALSE, fs |-> w.fs,
           log |-> <<Info("Created " \o what \o " at " \o PathString(file))>>]

\* if (!fs.existsSync(file)) fs.writeFileSync(file, text, 'utf8')
EnsureFile(f, file, text, what) ==
  IF existsSync(f, file) THEN [threw |-> FALSE, fs |-> f, log |-> <<>>]
  ELSE LET w == writeFileSync(f, file, text)
       IN IF w.threw THEN [threw |-> TRUE, fs |-> f, message |-> w.message, log |-> <<>>]
          ELSE [threw |-> FALSE, fs |-> w.fs,
                log |-> <<Info("Created " \o what \o " at " \o PathString(file))>>]

\* lines 157-240: execute of initialize_project
initialize_project_execute(f, day, args) ==
  LET lines0 == <<Info("Initializing project at " \o Render(args.projectRoot))>>
  IN IF args.projectRoot.t # "path"
       THEN CaughtInitialize(
              "The \"path\" argument must be of type string. Received undefined",
              f, lines0)
     ELSE
       LET root == args.projectRoot
           d1 == EnsureDir(f, join(root, <<"scripts">>))
       IN IF d1.threw THEN CaughtInitialize(d1.message, d1.fs, lines0)
          ELSE
       LET d2 == EnsureDir(d1.fs, join(root, <<"tasks">>))
           lines2 == lines0 \o d1.log \o d2.log
       IN IF d2.threw THEN CaughtInitialize(d2.message, d2.fs, lines0 \o d1.log)
          ELSE
       LET e == EnsureFile(d2.fs, join(root, <<"scripts", "example_prd.txt">>),
                           ExamplePrd, "example PRD")
       IN IF e.threw THEN CaughtInitialize(e.message, e.fs, lines2)
          ELSE
       LET t == EnsureFile(e.fs, join(root, <<"tasks", "tasks.json">>),
                           EmptyTasksJson(root, day), "empty tasks.json")
       IN IF t.threw THEN CaughtInitialize(t.message, t.fs, lines2 \o e.log)
          ELSE [ret |-> [success |-> TRUE,
                         data |-> [message |-> InitializedMessage,
                                   next_step |-> "Now that the project is initialized, the next step is to create the tasks by parsing a PRD. [...]"]],
                fs |-> t.fs,
                log |-> lines2 \o e.log \o t.log]

(***************************************************************************)
(* Inputs of the model.                                                     *)
(***************************************************************************)
FlagValues == {undefined, "true", "false"}
AnthropicKeys == {undefined, "", "sk-ant"}
PerplexityKeys == {undefined, "pplx"}

Session(flag, anthropic, perplexity) ==
  [env |-> [CLAUDE_DESKTOP |-> flag,
            ANTHROPIC_API_KEY |-> anthropic,
            PERPLEXITY_API_KEY |-> perplexity,
            MODEL |-> undefined, MAX_TOKENS |-> Undef, TEMPERATURE |-> Undef]]

\* a session that carries a model configuration
ConfigSession(model, maxTokens, temperature) ==
  [env |-> [CLAUDE_DESKTOP |-> undefined,
            ANTHROPIC_API_KEY |-> undefined,
            PERPLEXITY_API_KEY |-> undefined,
            MODEL |-> model, MAX_TOKENS |-> maxTokens, TEMPERATURE |-> temperature]]

ModelNames == {undefined, "", "claude-3-opus"}
MaxTokensValues == {Undef, Str(<<>>), Str(<<"a", "b", "c">>), Str(<<"1", "0", "0">>)}
TemperatureValues ==
  {Undef, Str(<<"h", "o", "t">>), Str(<<"0", ".", "7">>), Str(<<"1">>)}

ConfigSessions ==
  {Undef} \cup {ConfigSession(m, t, x) : m \in ModelNames, t \in MaxTokensValues,
                                         x \in TemperatureValues}

\* the model configuration the process environment can carry
AmbientModels == {undefined, "claude-3-haiku"}
AmbientMaxTokens == {Undef, Str(<<"2", "0", "0">>)}
AmbientTemperatures == {Undef, Str(<<"0", ".", "5">>)}

\* a call without a session (context = {}), and every session environment
Sessions ==
  {Undef} \cup {Session(c, a, x) : c \in FlagValues, a \in AnthropicKeys,
                                   x \in PerplexityKeys}

\* the sessions the orchestrator is driven with
ParseSessions == {Undef, Session("false", undefined, undefined)}

\* the params of a chat or completion call
ChatParams ==
  [model : {undefined, "claude-3-opus"},
   stream : {Undef, Bool(FALSE), Bool(TRUE)},
   messages : {<<>>, <<"hi">>, <<"hi", "again">>}]

SelectOptions ==
  {[t |-> "object"]}
  \cup {[t |-> "object", requiresResearch |-> r, claudeOverloaded |-> o] :
          r \in {Undef, Bool(TRUE), Bool(FALSE)}, o \in {Bool(TRUE), Bool(FALSE)}}

P == <<"p">>
RootPath == Path(TRUE, P)

PrdRel == Path(FALSE, <<"scripts", "prd.txt">>)
PrdAbs == Path(TRUE, <<"p", "scripts", "prd.txt">>)
MissingRel == Path(FALSE, <<"scripts", "missing.txt">>)
ScriptsRel == Path(FALSE, <<"scripts">>)

TasksRel == Path(FALSE, <<"tasks", "tasks.json">>)
OutAbs == Path(TRUE, <<"p", ".", "out", "t.json">>)
NestedRel == Path(FALSE, <<"tasks", "sub", "t.json">>)

NumTasksValues ==
  {Undef, Str(<<>>), Str(<<"a", "b", "c">>), Str(<<"2">>), Str(<<"0">>),
   Str(<<"2", "x">>)}
  \cup {Num(n) : n \in 0..MaxNumTasks}

AppendValues == {Undef, Bool(TRUE), Bool(FALSE)}

Args(root, input, output, numTasks, append) ==
  [projectRoot |-> root, input |-> input, output |-> output,
   numTasks |-> numTasks, append |-> append]

\* the arguments parsePRDDirect and parse_prd are called with: every
\* combination of missing required arguments, every pair of input and output
\* paths, and every numTasks and append value on a well-formed request
ParseArgs ==
  {Args(r, i, o, Undef, Undef) :
     r \in {Undef, EmptyString, RootPath}, i \in {Undef, EmptyString, PrdRel},
     o \in {Undef, EmptyString, TasksRel}}
  \cup {Args(RootPath, i, o, Num(2), Undef) :
          i \in {PrdRel, PrdAbs, MissingRel, ScriptsRel},
          o \in {TasksRel, OutAbs, NestedRel}}
  \cup {Args(RootPath, PrdRel, TasksRel, n, a) :
          n \in NumTasksValues, a \in AppendValues}

\* the request after the defaults the parameter schema of parse_prd declares
\* (server.js line 65: input; output, numTasks and append declare none)
WithSchemaDefaults(request) ==
  [request EXCEPT !.input = IF request.input = Undef THEN PrdRel ELSE @]

\* projectRoot is a required parameter of initialize_project
InitArgs == {[projectRoot |-> r] : r \in {RootPath}}

Docs == {<<>>, <<"# Test PRD", "- Feature 1">>}
OtherText == <<"something else">>
OldTasks == <<"{ \"tasks\": [ { \"id\": 1 } ] }">>
CustomExample == <<"my own example">>

\* the documents the builder is given: every text of at most MaxDocLen lines
DocLines == {"# Test PRD", "- Feature 1", ""}
Documents == UNION {[1..n -> DocLines] : n \in 0..MaxDocLen}

\* the task counts parsePRDDirect hands to the builder
TaskCounts == {Num(n) : n \in 0..MaxNumTasks} \cup {Num(DefaultNumTasks)}

\* the file systems a call can find: the project root missing, a file or a
\* directory; below it scripts/ with or without prd.txt and example_prd.txt,
\* and tasks missing, a file or a directory with or without tasks.json
Layout(root, scripts, prd, example, tasks, tasksJson) ==
  LET entries ==
        {<<<<>>, Dir>>}
        \cup (IF root = "dir" THEN {<<P, Dir>>} ELSE {})
        \cup (IF root = "file" THEN {<<P, File(OtherText)>>} ELSE {})
        \cup (IF scripts = "dir" THEN {<<P \o <<"scripts">>, Dir>>} ELSE {})
        \cup (IF prd.present
                THEN {<<P \o <<"scripts", "prd.txt">>, File(prd.text)>>} ELSE {})
        \cup (IF example = "file"
                THEN {<<P \o <<"scripts", "example_prd.txt">>, File(CustomExample)>>}
              ELSE {})
        \cup (IF tasks = "dir" THEN {<<P \o <<"tasks">>, Dir>>} ELSE {})
        \cup (IF tasks = "file" THEN {<<P \o <<"tasks">>, File(OtherText)>>} ELSE {})
        \cup (IF tasksJson = "file"
                THEN {<<P \o <<"tasks", "tasks.json">>, File(OldTasks)>>} ELSE {})
  IN [n \in {e[1] : e \in entries} |-> (CHOOSE e \in entries : e[1] = n)[2]]

MaybeDoc == {[present |-> FALSE, text |-> <<>>]} \cup {[present |-> TRUE, text |-> d] : d \in Docs}

NoDoc == [present |-> FALSE, text |-> <<>>]

InitialFileSystems ==
  {Layout("none", "none", NoDoc, "none", "none", "none"),
   Layout("file", "none", NoDoc, "none", "none", "none"),
   Layout("dir", "none", NoDoc, "none", "none", "none"),
   Layout("dir", "none", NoDoc, "none", "file", "none")}
  \cup {Layout("dir", "dir", prd, example, tasks, "none") :
          prd \in MaybeDoc, example \in {"none", "file"},
          tasks \in {"none", "file", "dir"}}
  \cup {Layout("dir", "dir", prd, example, "dir", "file") :
          prd \in MaybeDoc, example \in {"none", "file"}}

(***************************************************************************)
(* The state machine.                                                       *)
(***************************************************************************)
Idle == [op |-> "none"]
NoReturn == [threw |-> FALSE, value |-> Undef]

TypeOK ==
  /\ processEnv.CLAUDE_DESKTOP \in FlagValues
  /\ server \in {"none", "constructed", "initialized"}
  /\ today \in 1..MaxDay
  /\ <<>> \in DOMAIN fs

Init ==
  /\ processEnv \in [CLAUDE_DESKTOP : FlagValues,
                     ANTHROPIC_API_KEY : {undefined},
                     PERPLEXITY_API_KEY : {undefined},
                     MODEL : {undefined}, MAX_TOKENS : {Undef}, TEMPERATURE : {Undef}]
  /\ fs \in InitialFileSystems
  /\ server = "none"
  /\ today = 1
  /\ call = Idle
  /\ ret = NoReturn
  /\ logged = <<>>

\* server.js lines 25-47: new ClaudeDesktopTaskMasterServer()
NewServer ==
  /\ call = Idle
  /\ server = "none"
  /\ server' = "constructed"
  /\ processEnv' = [processEnv EXCEPT !.CLAUDE_DESKTOP = "true"]
  /\ UNCHANGED <<fs, today, call, ret, logged>>

\* server.js lines 52-247: init() registers the two tools
ServerInit ==
  /\ call = Idle
  /\ server = "constructed"
  /\ server' = "initialized"
  /\ UNCHANGED <<processEnv, fs, today, call, ret, logged>>

\* a direct call of the exported parsePRDDirect (install.js runTest)
CallParsePRDDirect ==
  /\ call = Idle
  /\ \E args \in ParseArgs, session \in ParseSessions :
       LET r == parsePRDDirect(processEnv, fs, today, args, session)
       IN /\ call' = [op |-> "parsePRDDirect", args |-> args, session |-> session]
          /\ ret' = [threw |-> FALSE, value |-> r.ret]
          /\ processEnv' = r.env
          /\ fs' = r.fs
          /\ logged' = r.log
  /\ UNCHANGED <<server, today>>

\* the transport invokes the parse_prd tool with the arguments of a request;
\* the transport is not part of the sources, so it may or may not fill in the
\* defaults the schema declares before it calls execute
CallParsePrdTool ==
  /\ call = Idle
  /\ server = "initialized"
  /\ \E request \in ParseArgs, session \in ParseSessions, filled \in BOOLEAN :
       LET args == IF filled THEN WithSchemaDefaults(request) ELSE request
           r == parse_prd_execute(processEnv, fs, today, args, session)
       IN /\ call' = [op |-> "parse_prd", args |-> args, session |-> session,
                      request |-> request]
          /\ ret' = [threw |-> FALSE, value |-> r.ret]
          /\ processEnv' = r.env
          /\ fs' = r.fs
          /\ logged' = r.log
  /\ UNCHANGED <<server, today>>

\* the transport invokes the initialize_project tool
CallInitializeProjectTool ==
  /\ call = Idle
  /\ server = "initialized"
  /\ \E args \in InitArgs :
       LET r == initialize_project_execute(fs, today, args)
       IN /\ call' = [op |-> "initialize_project", args |-> args, session |-> Undef]
          /\ ret' = [threw |-> FALSE, value |-> r.ret]
          /\ fs' = r.fs
          /\ logged' = r.log
  /\ UNCHANGED <<processEnv, server, today>>

\* a call of the exported getAnthropicClientForMCP
CallGetAnthropicClientForMCP ==
  /\ call = Idle
  /\ \E session \in Sessions :
       LET r == getAnthropicClientForMCP(processEnv, session)
       IN /\ call' = [op |-> "getAnthropicClientForMCP", session |-> session,
                      env |-> processEnv]
          /\ ret' = IF r.threw THEN [threw |-> TRUE, message |-> r.message]
                    ELSE [threw |-> FALSE, value |-> r.value]
          /\ logged' = r.log
  /\ UNCHANGED <<processEnv, fs, server, today>>

\* a call of the exported getBestAvailableAIModel
CallGetBestAvailableAIModel ==
  /\ call = Idle
  /\ \E session \in Sessions, options \in SelectOptions :
       LET r == getBestAvailableAIModel(processEnv, session, options)
       IN /\ call' = [op |-> "getBestAvailableAIModel", session |-> session,
                      options |-> options, env |-> processEnv]
          /\ ret' = IF r.threw THEN [threw |-> TRUE, message |-> r.message]
                    ELSE [threw |-> FALSE, value |-> r.value]
          /\ logged' = r.log
  /\ UNCHANGED <<processEnv, fs, server, today>>

\* a call of the exported getModelConfig
CallGetModelConfig ==
  /\ call = Idle
  /\ \E session \in ConfigSessions :
       /\ call' = [op |-> "getModelConfig", session |-> session, env |-> processEnv]
       /\ ret' = [threw |-> FALSE,
                  value |-> getModelConfig(session, DEFAULT_MODEL_CONFIG)]
       /\ logged' = <<>>
  /\ UNCHANGED <<processEnv, fs, server, today>>

\* parsePRDDirect line 672 calls generateTasksFromPRD
CallGenerateTasksFromPRD ==
  /\ call = Idle
  /\ \E prdContent \in Documents, numTasks \in TaskCounts :
       LET r == generateTasksFromPRD(prdContent, PrdAbs, numTasks, today)
       IN /\ call' = [op |-> "generateTasksFromPRD", prdContent |-> prdContent,
                      prdPath |-> PrdAbs, numTasks |-> numTasks]
          /\ ret' = [threw |-> FALSE,
                     value |-> [shouldBeHandledByClaudeDirectly
                                  |-> r.shouldBeHandledByClaudeDirectly,
                                systemPrompt |-> r.systemPrompt,
                                userPrompt |-> r.userPrompt]]
          /\ logged' = r.log
  /\ UNCHANGED <<processEnv, fs, server, today>>

\* the caller of parsePRDDirect calls it again with the same arguments and the
\* same session, having written nothing in between
CallParsePRDDirectAgain ==
  /\ call.op = "parsePRDDirect"
  /\ "first" \notin DOMAIN call
  /\ LET r == parsePRDDirect(processEnv, fs, today, call.args, call.session)
     IN /\ call' = [op |-> "parsePRDDirect", args |-> call.args,
                    session |-> call.session, first |-> ret.value]
        /\ ret' = [threw |-> FALSE, value |-> r.ret]
        /\ processEnv' = r.env
        /\ fs' = r.fs
        /\ logged' = r.log
  /\ UNCHANGED <<server, today>>

\* the calendar date changes between the two calls
Midnight ==
  /\ call.op = "parsePRDDirect"
  /\ "first" \notin DOMAIN call
  /\ today < MaxDay
  /\ today' = today + 1
  /\ UNCHANGED <<processEnv, fs, server, call, ret, logged>>

\* client.messages.create(params) on a client getAnthropicClientForMCP returned
CallMessagesCreate ==
  /\ call = Idle
  /\ \E session \in Sessions, params \in ChatParams :
       LET c == getAnthropicClientForMCP(processEnv, session)
       IN /\ ~c.threw
          /\ call' = [op |-> "messages.create", client |-> c.value, params |-> params]
          /\ ret' = [threw |-> FALSE, value |-> createMessages(c.value, params)]
          /\ logged' = c.log
  /\ UNCHANGED <<processEnv, fs, server, today>>

\* for await (const event of stream): the consumer asks for the next event
StreamNext ==
  /\ call.op = "messages.create"
  /\ ret.value.kind = "stream"
  /\ ret.value.pc # "done"
  /\ ret' = [ret EXCEPT !.value = StreamStep(@, call.params)]
  /\ UNCHANGED <<processEnv, fs, server, today, call, logged>>

\* client.chat.completions.create(params) on a client
\* getPerplexityClientForMCP returned
CallCompletionsCreate ==
  /\ call = Idle
  /\ \E session \in Sessions, params \in ChatParams :
       LET c == getPerplexityClientForMCP(processEnv, session)
       IN /\ ~c.threw
          /\ call' = [op |-> "chat.completions.create", client |-> c.value,
                      params |-> params]
          /\ ret' = [threw |-> FALSE, value |-> createCompletion(c.value, params)]
          /\ logged' = c.log
  /\ UNCHANGED <<processEnv, fs, server, today>>

\* the caller has received the result; the next request can start
Deliver ==
  /\ call # Idle
  /\ call' = Idle
  /\ ret' = NoReturn
  /\ logged' = <<>>
  /\ UNCHANGED <<processEnv, fs, server, today>>

\* the calendar date changes between two requests
NextDay ==
  /\ call = Idle
  /\ today < MaxDay
  /\ today' = today + 1
  /\ UNCHANGED <<processEnv, fs, server, call, ret, logged>>

Next ==
  \/ NewServer
  \/ ServerInit
  \/ CallParsePRDDirect
  \/ CallParsePrdTool
  \/ CallInitializeProjectTool
  \/ Deliver
  \/ NextDay

Spec == Init /\ [][Next]_vars

\* the provider selection on its own: every ambient environment, every
\* session, every option set
SelectInit ==
  /\ processEnv \in [CLAUDE_DESKTOP : FlagValues,
                     ANTHROPIC_API_KEY : AnthropicKeys,
                     PERPLEXITY_API_KEY : PerplexityKeys,
                     MODEL : {undefined}, MAX_TOKENS : {Undef}, TEMPERATURE : {Undef}]
  /\ fs = Layout("dir", "dir", [present |-> TRUE, text |-> <<"# Test PRD", "- Feature 1">>],
                 "none", "dir", "none")
  /\ server = "none"
  /\ today = 1
  /\ call = Idle
  /\ ret = NoReturn
  /\ logged = <<>>

SelectNext ==
  \/ NewServer
  \/ CallGetAnthropicClientForMCP
  \/ CallGetBestAvailableAIModel
  \/ Deliver

SelectSpec == SelectInit /\ [][SelectNext]_vars

\* the model configuration on its own: every ambient configuration and every
\* session configuration
ConfigInit ==
  /\ processEnv \in [CLAUDE_DESKTOP : {undefined},
                     ANTHROPIC_API_KEY : {undefined},
                     PERPLEXITY_API_KEY : {undefined},
                     MODEL : AmbientModels, MAX_TOKENS : AmbientMaxTokens,
                     TEMPERATURE : AmbientTemperatures]
  /\ fs = Layout("none", "none", NoDoc, "none", "none", "none")
  /\ server = "none"
  /\ today = 1
  /\ call = Idle
  /\ ret = NoReturn
  /\ logged = <<>>

ConfigNext ==
  \/ CallGetModelConfig
  \/ Deliver

ConfigSpec == ConfigInit /\ [][ConfigNext]_vars

\* a process that starts without the flag, with any credentials, and then
\* constructs the server, parses and selects providers in any order
StickyInit ==
  /\ processEnv \in [CLAUDE_DESKTOP : {undefined, "false"},
                     ANTHROPIC_API_KEY : AnthropicKeys,
                     PERPLEXITY_API_KEY : PerplexityKeys,
                     MODEL : {undefined}, MAX_TOKENS : {Undef}, TEMPERATURE : {Undef}]
  /\ fs = Layout("dir", "dir", [present |-> TRUE, text |-> <<"# Test PRD", "- Feature 1">>],
                 "none", "dir", "none")
  /\ server = "none"
  /\ today = 1
  /\ call = Idle
  /\ ret = NoReturn
  /\ logged = <<>>

StickyNext ==
  \/ NewServer
  \/ ServerInit
  \/ CallParsePRDDirect
  \/ CallParsePrdTool
  \/ CallGetBestAvailableAIModel
  \/ Deliver

StickySpec == StickyInit /\ [][StickyNext]_vars

\* the two mock clients on their own: every way to obtain one, every params
ClientNext ==
  \/ CallMessagesCreate
  \/ StreamNext
  \/ CallCompletionsCreate
  \/ Deliver

ClientSpec == SelectInit /\ [][ClientNext]_vars

\* the prompt builder on its own: every document and every task count
BuilderNext ==
  \/ CallGenerateTasksFromPRD
  \/ Deliver
  \/ NextDay

BuilderSpec == SelectInit /\ [][BuilderNext]_vars

\* parsePRDDirect called twice in a row, after any number of earlier calls
RepeatNext ==
  \/ CallParsePRDDirect
  \/ CallParsePRDDirectAgain
  \/ Midnight
  \/ Deliver
  \/ NextDay

RepeatSpec == Init /\ [][RepeatNext]_vars

(***************************************************************************)
(* Properties of the provider selection (SelectSpec).                       *)
(***************************************************************************)
SelectOps == {"getAnthropicClientForMCP", "getBestAvailableAIModel"}

AmbientFlag == call.env.CLAUDE_DESKTOP
SessionFlag == SessionEnv(call.session, "CLAUDE_DESKTOP")

\* what the finished call resolved the mode to, read off its log
DirectLines ==
  {Info("Using Claude Desktop mode with mock Anthropic client"),
   Info("Using Claude Desktop mode for AI operations")}

ResolvedMode ==
  IF \E i \in 1..Len(logged) : logged[i] \in DirectLines
    THEN "DirectGeneration" ELSE "ProviderBacked"

\* a credential found in the session or in the ambient environment
CredentialPresent(key) ==
  TruthyEnv(SessionEnv(call.session, key)) \/ TruthyEnv(call.env[key])

ResearchRequested ==
  /\ "requiresResearch" \in DOMAIN call.options
  /\ call.options.requiresResearch = Bool(TRUE)

\* C1: the mode a call resolves is DirectGeneration when the ambient flag or
\* the session flag is 'true', and ProviderBacked when both are 'false' or
\* missing.
C1_ModeIsAmbientOrSession ==
  call.op \in SelectOps =>
    /\ (AmbientFlag = "true" \/ SessionFlag = "true")
         => ResolvedMode = "DirectGeneration"
    /\ (AmbientFlag \in {undefined, "false"} /\ SessionFlag \in {undefined, "false"})
         => ResolvedMode = "ProviderBacked"

C1_Witness ==
  /\ call.op = "getBestAvailableAIModel"
  /\ AmbientFlag = "false"
  /\ SessionFlag = "true"
  /\ ResolvedMode = "DirectGeneration"

\* C2: in DirectGeneration mode getBestAvailableAIModel returns the selection
\* of type 'claude' and does not throw, whatever the options and credentials.
C2_DirectModeSelectsClaude ==
  (call.op = "getBestAvailableAIModel"
   /\ (AmbientFlag = "true" \/ SessionFlag = "true"))
    => /\ ~ret.threw
       /\ ret.value.type = "claude"
       /\ ret.value.client.class = "MockAnthropicClient"

C2_Witness ==
  /\ call.op = "getBestAvailableAIModel"
  /\ SessionFlag = "true"
  /\ ResearchRequested
  /\ call.options.claudeOverloaded = Bool(TRUE)
  /\ CredentialPresent("PERPLEXITY_API_KEY")
  /\ ~CredentialPresent("ANTHROPIC_API_KEY")
  /\ ~ret.threw
  /\ ret.value.type = "claude"

\* C3: in ProviderBacked mode, without a primary credential and with the
\* research path not taken, getBestAvailableAIModel throws the error that
\* asks for an API key or for Claude Desktop mode, and returns no selection.
C3_NoProviderAvailable ==
  (call.op = "getBestAvailableAIModel"
   /\ AmbientFlag # "true" /\ SessionFlag # "true"
   /\ ~CredentialPresent("ANTHROPIC_API_KEY")
   /\ ~(ResearchRequested /\ CredentialPresent("PERPLEXITY_API_KEY")))
    => /\ ret.threw
       /\ ret.message = NoModelsAvailable

C3_Witness ==
  /\ call.op = "getBestAvailableAIModel"
  /\ AmbientFlag = "false"
  /\ SessionFlag = undefined
  /\ ~CredentialPresent("ANTHROPIC_API_KEY")
  /\ CredentialPresent("PERPLEXITY_API_KEY")
  /\ ~ResearchRequested
  /\ ret.threw

\* C4: in ProviderBacked mode a research request with a research credential
\* gets the selection of type 'perplexity'; without the request or without the
\* credential that type is never returned; and the failure of the research
\* client is never what the selector throws.
C4_ResearchIsOpportunistic ==
  (call.op = "getBestAvailableAIModel" /\ AmbientFlag # "true" /\ SessionFlag # "true")
    => /\ (ResearchRequested /\ CredentialPresent("PERPLEXITY_API_KEY"))
            => (~ret.threw /\ ret.value.type = "perplexity"
                /\ ret.value.client.class = "MockPerplexityClient")
       /\ ~(ResearchRequested /\ CredentialPresent("PERPLEXITY_API_KEY"))
            => (ret.threw \/ ret.value.type = "claude")
       /\ ret.threw => ret.message # PerplexityKeyMissing

C4_Witness ==
  /\ call.op = "getBestAvailableAIModel"
  /\ AmbientFlag = "false"
  /\ ResearchRequested
  /\ ~TruthyEnv(SessionEnv(call.session, "PERPLEXITY_API_KEY"))
  /\ CredentialPresent("PERPLEXITY_API_KEY")
  /\ ~CredentialPresent("ANTHROPIC_API_KEY")
  /\ ~ret.threw
  /\ ret.value.type = "perplexity"

(***************************************************************************)
(* Properties of the orchestrator and of the two tools (Spec).              *)
(***************************************************************************)
ParseOps == {"parsePRDDirect", "parse_prd"}
ToolOps == {"parse_prd", "initialize_project"}

\* an argument that was not supplied, or supplied empty
Absent(v) == v = Undef \/ v = EmptyString

AllPresent(a) ==
  ~Absent(a.projectRoot) /\ ~Absent(a.input) /\ ~Absent(a.output)

\* the path an argument names: itself when absolute, else below projectRoot
Located(a, arg) == IF arg.abs THEN arg ELSE resolve(a.projectRoot, arg)

IsFile(f, p) == FsNode(p) \in DOMAIN f /\ f[FsNode(p)].kind = "file"

FailsWith(e, code) ==
  /\ e.success = FALSE
  /\ "error" \in DOMAIN e
  /\ "code" \in DOMAIN e.error
  /\ e.error.code = code

\* C5: validation is fail-fast in the order projectRoot, input, output: the
\* first missing one decides the error code, whatever the later ones are.
C5_ValidationOrder ==
  call.op \in ParseOps =>
    LET a == call.args
        e == ret.value
    IN /\ Absent(a.projectRoot) => FailsWith(e, "MISSING_PROJECT_ROOT")
       /\ (~Absent(a.projectRoot) /\ Absent(a.input))
            => FailsWith(e, "MISSING_INPUT_PATH")
       /\ (~Absent(a.projectRoot) /\ ~Absent(a.input) /\ Absent(a.output))
            => FailsWith(e, "MISSING_OUTPUT_PATH")

C5_Witness ==
  /\ call.op = "parsePRDDirect"
  /\ call.args.projectRoot = Undef
  /\ call.args.input = Undef
  /\ call.args.output = Undef
  /\ FailsWith(ret.value, "MISSING_PROJECT_ROOT")

\* C6: a call with the three arguments present whose input path does not
\* exist when the call starts returns INPUT_FILE_NOT_FOUND, and the details
\* of the error name the path that was checked.
C6_InputFileNotFound ==
  [][(call = Idle /\ call'.op \in ParseOps /\ AllPresent(call'.args)
      /\ ~existsSync(fs, Located(call'.args, call'.args.input)))
     => /\ FailsWith(ret'.value, "INPUT_FILE_NOT_FOUND")
        /\ "details" \in DOMAIN ret'.value.error
        /\ \E i \in 1..Len(ret'.value.error.details) :
             ret'.value.error.details[i]
               = PathString(Located(call'.args, call'.args.input))]_vars

C6_Witness ==
  /\ call.op = "parse_prd"
  /\ call.args.projectRoot = RootPath
  /\ call.args.input = MissingRel
  /\ call.args.output = TasksRel
  /\ FailsWith(ret.value, "INPUT_FILE_NOT_FOUND")
  /\ ret.value.error.details[2] = "/p/scripts/missing.txt"

\* C7: a parse call on an existing input file leaves the output file as it
\* was: missing if it was missing, with the same text if it was there.
C7_OutputFileUntouched ==
  [][(call = Idle /\ call'.op \in ParseOps /\ AllPresent(call'.args)
      /\ IsFile(fs, Located(call'.args, call'.args.input)))
     => LET out == FsNode(Located(call'.args, call'.args.output))
        IN /\ (out \in DOMAIN fs') = (out \in DOMAIN fs)
           /\ out \in DOMAIN fs => fs'[out] = fs[out]]_vars

C7_Witness ==
  /\ call.op = "parse_prd"
  /\ call.args.output = OutAbs
  /\ ret.value.success
  /\ <<"p", "out">> \in DOMAIN fs
  /\ <<"p", "out", "t.json">> \notin DOMAIN fs

\* the delegate-to-caller envelope for the arguments a
DelegateEnvelope(a, e) ==
  /\ e.success = TRUE
  /\ "data" \in DOMAIN e
  /\ {"systemPrompt", "userPrompt", "outputPath", "numTasks", "append"}
       \subseteq DOMAIN e.data
  /\ e.data.systemPrompt # <<>>
  /\ e.data.userPrompt # <<>>
  /\ e.data.outputPath.abs
  /\ e.data.outputPath = Located(a, a.output)
  /\ e.data.numTasks.t = "number" /\ ~isNaN(e.data.numTasks)
  /\ e.data.append \in BOOLEAN
  /\ e.data.append = (a.append = Bool(TRUE))

\* the parent directory of the output exists or can be made
OutputDirUsable(f, a) ==
  LET dir == FsNode(dirname(Located(a, a.output)))
  IN dir \in DOMAIN f
     \/ \A q \in Prefixes(dir) : q \in DOMAIN f => f[q].kind = "dir"

\* C8 as stated: every call with the three arguments present and an existing
\* input file returns the delegate-to-caller envelope.
C8_AsStated ==
  [][(call = Idle /\ call'.op \in ParseOps /\ AllPresent(call'.args)
      /\ IsFile(fs, Located(call'.args, call'.args.input)))
     => DelegateEnvelope(call'.args, ret'.value)]_vars

\* C8: a call with the three arguments present, an existing input file and an
\* output whose parent directory exists or can be made returns success with
\* both prompts, the located output path, the number of tasks and the boolean
\* append flag, from parsePRDDirect and from the parse_prd tool alike.
C8_DelegateEnvelope ==
  [][(call = Idle /\ call'.op \in ParseOps /\ AllPresent(call'.args)
      /\ IsFile(fs, Located(call'.args, call'.args.input))
      /\ OutputDirUsable(fs, call'.args))
     => DelegateEnvelope(call'.args, ret'.value)]_vars

C8_Witness ==
  /\ call.op = "parse_prd"
  /\ call.args.input = PrdAbs
  /\ call.args.output = OutAbs
  /\ DelegateEnvelope(call.args, ret.value)
  /\ ret.value.data.outputPath = OutAbs

\* C9: an envelope has data and no error when success is true, and error and
\* no data when success is false.
C9_DataXorError ==
  call.op \in ParseOps \cup ToolOps =>
    LET e == ret.value
    IN /\ e.success \in BOOLEAN
       /\ e.success => ("data" \in DOMAIN e /\ "error" \notin DOMAIN e)
       /\ ~e.success => ("error" \in DOMAIN e /\ "data" \notin DOMAIN e)

C9_Witness ==
  /\ call.op = "initialize_project"
  /\ ~ret.value.success
  /\ "error" \in DOMAIN ret.value
  /\ "data" \notin DOMAIN ret.value

\* C10: every failure envelope of a tool carries an error with a code and a
\* non-empty message.
C10_FailureHasCodeAndMessage ==
  (call.op \in ToolOps /\ ~ret.value.success)
    => /\ "code" \in DOMAIN ret.value.error
       /\ "message" \in DOMAIN ret.value.error
       /\ ret.value.error.message # ""

\* C11: an exception thrown after validation (reading an input that is a
\* directory, creating an output directory below a regular file) is not
\* raised to the caller: the call returns a failure envelope whose code is
\* PARSE_PRD_ERROR and whose message is the message of the exception.
C11_ExceptionBecomesParsePrdError ==
  [][(call = Idle /\ call'.op \in ParseOps /\ AllPresent(call'.args)
      /\ existsSync(fs, Located(call'.args, call'.args.input)))
     => LET a == call'.args
            in == Located(a, a.input)
            outDir == dirname(Located(a, a.output))
        IN /\ ~ret'.threw
           /\ ~IsFile(fs, in)
                => /\ FailsWith(ret'.value, "PARSE_PRD_ERROR")
                   /\ ret'.value.error.message
                        = "EISDIR: illegal operation on a directory, read"
           /\ (IsFile(fs, in) /\ ~OutputDirUsable(fs, a))
                => /\ FailsWith(ret'.value, "PARSE_PRD_ERROR")
                   /\ ret'.value.error.message
                        = "ENOTDIR: not a directory, mkdir '"
                          \o PathString(outDir) \o "'"]_vars

C11_Witness ==
  /\ call.op = "parsePRDDirect"
  /\ call.args.input = ScriptsRel
  /\ FailsWith(ret.value, "PARSE_PRD_ERROR")
  /\ ret.value.error.message = "EISDIR: illegal operation on a directory, read"

\* a call that gets as far as the number of tasks: the three arguments
\* present, the input an existing file, the output directory usable
ReachesNumTasks(f, a) ==
  /\ AllPresent(a)
  /\ IsFile(f, Located(a, a.input))
  /\ OutputDirUsable(f, a)

\* a non-empty string without a leading integer
Unparseable(v) == v.t = "string" /\ v.s # <<>> /\ isNaN(parseInt(v.s))

\* C14 as stated: numTasks never makes the call fail, and the resolved number
\* is the given number, or the parsed string when it parses, and 10 when the
\* value is missing or unparseable.
C14_AsStated ==
  [][(call = Idle /\ call'.op \in ParseOps /\ ReachesNumTasks(fs, call'.args))
     => LET v == call'.args.numTasks
        IN /\ ret'.value.success
           /\ ret'.value.data.numTasks =
                (IF v.t = "number" THEN v
                 ELSE IF v.t = "string" /\ v.s # <<>> /\ ~Unparseable(v)
                   THEN parseInt(v.s)
                 ELSE Num(DefaultNumTasks))]_vars

\* C14: numTasks never makes the call fail, and the resolved number is the
\* given number when that is not 0, or the integer the given string starts
\* with, and 10 when the value is missing, empty, the number 0 or a string
\* without a leading integer.
C14_NumTasksNeverFails ==
  [][(call = Idle /\ call'.op \in ParseOps /\ ReachesNumTasks(fs, call'.args))
     => LET v == call'.args.numTasks
        IN /\ ret'.value.success
           /\ ret'.value.data.numTasks =
                (IF v.t = "number" /\ v # Num(0) THEN v
                 ELSE IF v.t = "string" /\ v.s # <<>> /\ ~Unparseable(v)
                   THEN parseInt(v.s)
                 ELSE Num(DefaultNumTasks))]_vars

C14_Witness ==
  /\ call.op = "parsePRDDirect"
  /\ call.args.numTasks = Num(0)
  /\ ret.value.success
  /\ ret.value.data.numTasks = Num(10)

\* the numTasks warning is among the lines the call logged
NumTasksWarned ==
  \E i \in 1..Len(logged) :
    /\ logged[i].level = "warn"
    /\ logged[i].text = "Invalid numTasks value: " \o Render(call.args.numTasks)
                        \o ". Using default: 10"

\* C15: a call that resolves the number of tasks logs the numTasks warning
\* exactly when a non-empty value was given that could not be parsed; without
\* numTasks the number is 10 and nothing is warned.
C15_WarningIffUnparseable ==
  (call.op \in ParseOps /\ ret.value.success)
    => /\ NumTasksWarned <=> Unparseable(call.args.numTasks)
       /\ call.args.numTasks = Undef
            => (ret.value.data.numTasks = Num(10) /\ ~NumTasksWarned)

C15_Witness ==
  /\ call.op = "parse_prd"
  /\ call.args.numTasks = Str(<<"a", "b", "c">>)
  /\ ret.value.success
  /\ ret.value.data.numTasks = Num(10)
  /\ NumTasksWarned

IsDir(f, p) == FsNode(p) \in DOMAIN f /\ f[FsNode(p)].kind = "dir"

\* the four things initialize_project is to leave behind below root
Initialized(f, root) ==
  /\ IsDir(f, join(root, <<"scripts">>))
  /\ IsDir(f, join(root, <<"tasks">>))
  /\ IsFile(f, join(root, <<"scripts", "example_prd.txt">>))
  /\ IsFile(f, join(root, <<"tasks", "tasks.json">>))

\* what a call of initialize_project on root is to do to the file system
CreateIfAbsent(f, g, root, day, e) ==
  LET tasksJson == FsNode(join(root, <<"tasks", "tasks.json">>))
  IN /\ e.success
     /\ Initialized(g, root)
     /\ \A n \in DOMAIN f : n \in DOMAIN g /\ g[n] = f[n]
     /\ tasksJson \notin DOMAIN f => g[tasksJson] = File(EmptyTasksJson(root, day))
     /\ Initialized(f, root) => g = f

\* root, root/scripts and root/tasks are each missing or a directory
NoFileInTheWay(f, root) ==
  /\ ~IsFile(f, root)
  /\ ~IsFile(f, join(root, <<"scripts">>))
  /\ ~IsFile(f, join(root, <<"tasks">>))

\* C16 as stated: from any prior state of projectRoot a call of
\* initialize_project succeeds, leaves the two directories and the two files
\* in place, writes the empty tasks.json only where there was none, changes
\* nothing that existed, and changes nothing at all on a second call.
C16_AsStated ==
  [][(call = Idle /\ call'.op = "initialize_project")
     => CreateIfAbsent(fs, fs', call'.args.projectRoot, today, ret'.value)]_vars

\* C16: from any prior state in which projectRoot, scripts and tasks are each
\* missing or a directory, a call of initialize_project succeeds, leaves the
\* two directories and the two files in place, writes the empty tasks.json
\* only where there was none, changes nothing that existed, and changes
\* nothing at all when the four were already there (a second call).
C16_CreateIfAbsent ==
  [][(call = Idle /\ call'.op = "initialize_project"
      /\ NoFileInTheWay(fs, call'.args.projectRoot))
     => CreateIfAbsent(fs, fs', call'.args.projectRoot, today, ret'.value)]_vars

\* a second call on a later day: it created nothing and the tasks.json of the
\* first call is still the one on disk
C16_Witness ==
  /\ call.op = "initialize_project"
  /\ ret.value.success
  /\ today = 2
  /\ Len(logged) = 1
  /\ Initialized(fs, RootPath)
  /\ fs[<<"p", "tasks", "tasks.json">>] = File(EmptyTasksJson(RootPath, 1))

\* C17: a parse_prd request that names only projectRoot is run with input
\* scripts/prd.txt and output tasks/tasks.json, and so does not fail with a
\* missing-argument error.
C17_ToolAppliesDefaults ==
  (call.op = "parse_prd"
   /\ call.request.projectRoot = RootPath
   /\ call.request.input = Undef
   /\ call.request.output = Undef)
    => /\ call.args.input = PrdRel
       /\ call.args.output = TasksRel
       /\ ~FailsWith(ret.value, "MISSING_INPUT_PATH")
       /\ ~FailsWith(ret.value, "MISSING_OUTPUT_PATH")

\* C20: a parse request leaves process.env.CLAUDE_DESKTOP with the value it
\* had when the request started.
C20_FlagReadOnlyDuringRequest ==
  [][(call = Idle /\ call'.op \in ParseOps)
     => processEnv'.CLAUDE_DESKTOP = processEnv.CLAUDE_DESKTOP]_vars

EarlyErrorCodes ==
  {"MISSING_PROJECT_ROOT", "MISSING_INPUT_PATH", "MISSING_OUTPUT_PATH",
   "INPUT_FILE_NOT_FOUND"}

\* C24: a parse call that ends in a missing-argument error or in
\* INPUT_FILE_NOT_FOUND leaves the file system as it found it: no directory
\* and no file is created or modified.
C24_EarlyErrorsTouchNothing ==
  [][(call = Idle /\ call'.op \in ParseOps
      /\ \E code \in EarlyErrorCodes : FailsWith(ret'.value, code))
     => fs' = fs]_vars

\* the input is missing and the output names a directory that does not exist:
\* the directory has not been made
C24_Witness ==
  /\ call.op = "parsePRDDirect"
  /\ call.args.input = MissingRel
  /\ call.args.output = OutAbs
  /\ FailsWith(ret.value, "INPUT_FILE_NOT_FOUND")
  /\ <<"p">> \in DOMAIN fs
  /\ <<"p", "out">> \notin DOMAIN fs

(***************************************************************************)
(* Properties of the model configuration (ConfigSpec).                      *)
(***************************************************************************)
\* an environment entry that holds a non-empty text
Supplied(x) == x.t = "string" /\ x.s # <<>>

\* C12: getModelConfig is total: whatever the session carries, malformed
\* numbers included, no field of the result is undefined or NaN.
C12_ModelConfigIsTotal ==
  call.op = "getModelConfig" =>
    /\ ret.value.model \notin {undefined, ""}
    /\ ~isNaN(ret.value.maxTokens)
    /\ ~isNaN(ret.value.temperature)

\* C13: each field of the model configuration is the session's value when the
\* session supplies one, else the value of the process environment when that
\* supplies one, else the default.
C13_SessionOverAmbientOverDefault ==
  call.op = "getModelConfig" =>
    LET sModel == SessionEnv(call.session, "MODEL")
        sTokens == SessionValue(call.session, "MAX_TOKENS")
        sTemp == SessionValue(call.session, "TEMPERATURE")
    IN /\ ret.value.model =
            (IF TruthyEnv(sModel) THEN sModel
             ELSE IF TruthyEnv(call.env.MODEL) THEN call.env.MODEL
             ELSE DEFAULT_MODEL_CONFIG.model)
       /\ (~Supplied(sTokens) /\ call.env.MAX_TOKENS = Str(<<"2", "0", "0">>))
            => ret.value.maxTokens = Num(200)
       /\ (~Supplied(sTokens) /\ ~Supplied(call.env.MAX_TOKENS))
            => ret.value.maxTokens = DEFAULT_MODEL_CONFIG.maxTokens
       /\ sTokens = Str(<<"1", "0", "0">>) => ret.value.maxTokens = Num(100)
       /\ (~Supplied(sTemp) /\ call.env.TEMPERATURE = Str(<<"0", ".", "5">>))
            => ret.value.temperature = Float(FALSE, 0, <<"5">>)
       /\ (~Supplied(sTemp) /\ ~Supplied(call.env.TEMPERATURE))
            => ret.value.temperature = DEFAULT_MODEL_CONFIG.temperature
       /\ sTemp = Str(<<"0", ".", "7">>)
            => ret.value.temperature = Float(FALSE, 0, <<"7">>)

(***************************************************************************)
(* Properties of the prompt builder (BuilderSpec).                          *)
(***************************************************************************)
\* part occurs in whole as a run of consecutive elements
ContainsVerbatim(whole, part) ==
  \E k \in 0..(Len(whole) - Len(part)) :
    SubSeq(whole, k + 1, k + Len(part)) = part

\* C18: for every document, the empty one included, and every task count the
\* builder returns the delegate marker, a non-empty system prompt that states
\* the task count, and a non-empty user prompt that contains the whole
\* document verbatim.
C18_BuilderEmbedsDocument ==
  call.op = "generateTasksFromPRD" =>
    LET r == ret.value
    IN /\ r.shouldBeHandledByClaudeDirectly = TRUE
       /\ r.systemPrompt # <<>>
       /\ \E i \in 1..(Len(r.systemPrompt) - 1) :
            /\ r.systemPrompt[i] = SystemPromptHead
            /\ r.systemPrompt[i + 1] = Render(call.numTasks)
       /\ r.userPrompt # <<>>
       /\ ContainsVerbatim(r.userPrompt, call.prdContent)

C18_Witness ==
  /\ call.op = "generateTasksFromPRD"
  /\ call.prdContent = <<"# Test PRD", "", "- Feature 1">>
  /\ call.numTasks = Num(2)
  /\ ret.value.userPrompt[2] = "2"
  /\ SubSeq(ret.value.userPrompt, 4, 6) = call.prdContent

(***************************************************************************)
(* Properties of repeated calls (RepeatSpec).                               *)
(***************************************************************************)
\* a prompt with the generation date blanked out
Undated(prompt) ==
  [i \in DOMAIN prompt |->
     IF \E d \in 1..MaxDay : prompt[i] = DateString(d) THEN "<date>" ELSE prompt[i]]

\* two envelopes that differ at most in the date the system prompt embeds
SameApartFromDate(e1, e2) ==
  IF e1.success /\ e2.success
    THEN [e1 EXCEPT !.data.systemPrompt = Undated(@)]
         = [e2 EXCEPT !.data.systemPrompt = Undated(@)]
  ELSE e1 = e2

\* C19: the second of two calls of parsePRDDirect with the same arguments and
\* session, and no write by the caller in between, returns the envelope the
\* first one returned, the embedded date apart, whatever was called before
\* and whatever the ambient flag was before the first call.
C19_SameCallSameEnvelope ==
  (call.op = "parsePRDDirect" /\ "first" \in DOMAIN call)
    => SameApartFromDate(call.first, ret.value)

\* the first call made the output directory, the date changed, and the second
\* call returned the same envelope with the new date
C19_Witness ==
  /\ call.op = "parsePRDDirect"
  /\ "first" \in DOMAIN call
  /\ call.args.output = OutAbs
  /\ call.first.success
  /\ ret.value.success
  /\ call.first.data.systemPrompt # ret.value.data.systemPrompt
  /\ call.first.data.userPrompt = ret.value.data.userPrompt

(***************************************************************************)
(* Properties of the mock clients (ClientSpec).                             *)
(***************************************************************************)
\* a streaming call whose iterator has returned
StreamDone ==
  /\ call.op = "messages.create"
  /\ ret.value.kind = "stream"
  /\ ret.value.pc = "done"

RECURSIVE DeltaText(_)
DeltaText(events) ==
  IF events = <<>> THEN ""
  ELSE (IF events[1].type = "content_block_delta" THEN events[1].delta.text ELSE "")
       \o DeltaText(Tail(events))

\* what the non-streaming call with the same params returns as its text
SentinelText ==
  createMessages(call.client, [call.params EXCEPT !.stream = Undef]).content[1].text

\* C21 as stated: a finished stream is one start event, then N delta events,
\* then one stop event and nothing else, and the delta texts concatenate to
\* the text of the non-streaming call.
C21_AsStated ==
  StreamDone =>
    LET ev == ret.value.events
    IN \E n \in 0..Len(ev) :
         /\ Len(ev) = n + 2
         /\ ev[1].type = "content_block_start"
         /\ \A i \in 2..(n + 1) : ev[i].type = "content_block_delta"
         /\ ev[n + 2].type \in {"content_block_stop", "message_stop"}
         /\ DeltaText(ev) = SentinelText

\* C21: a stream never holds more than N + 3 events, and a finished stream is
\* one content_block_start event, then N content_block_delta events, then one
\* content_block_stop event, then one message_stop event last; the delta
\* texts concatenate to the text of the non-streaming call, NOT_IMPLEMENTED.
C21_StreamShape ==
  (call.op = "messages.create" /\ ret.value.kind = "stream") =>
    LET ev == ret.value.events
        n == Cardinality({i \in 1..Len(ev) : ev[i].type = "content_block_delta"})
    IN /\ Len(ev) <= n + 3
       /\ ret.value.pc = "done" =>
            /\ Len(ev) = n + 3
            /\ ev[1].type = "content_block_start"
            /\ \A i \in 2..(n + 1) : ev[i].type = "content_block_delta"
            /\ ev[n + 2].type = "content_block_stop"
            /\ ev[n + 3].type = "message_stop"
            /\ DeltaText(ev) = SentinelText
            /\ DeltaText(ev) = "NOT_IMPLEMENTED"

C21_Witness ==
  /\ StreamDone
  /\ call.client.options.apiKey = "sk-ant"
  /\ Len(ret.value.events) = 4
  /\ ret.value.events[2].delta.text = "NOT_IMPLEMENTED"
  /\ ret.value.events[4].type = "message_stop"

\* C22: a non-streaming chat call and a completion call return a response of
\* the provider's shape whose content is NOT_IMPLEMENTED, the same response
\* for every messages value and for a client made in direct mode and a
\* client made with a credential.
C22_ClientsAnswerAlike ==
  /\ (call.op = "messages.create" /\ ~Truthy(call.params.stream))
       => /\ ret.value.role = "assistant"
          /\ ret.value.content = <<[type |-> "text", text |-> "NOT_IMPLEMENTED"]>>
          /\ ret.value = createMessages(MockAnthropicClient(undefined, undefined),
                                        [call.params EXCEPT !.messages = <<>>])
  /\ call.op = "chat.completions.create"
       => /\ Len(ret.value.choices) = 1
          /\ ret.value.choices[1].message
               = [content |-> "NOT_IMPLEMENTED", role |-> "assistant"]
          /\ ret.value = createCompletion(MockPerplexityClient(undefined, undefined),
                                          [call.params EXCEPT !.messages = <<>>])

C22_Witness ==
  /\ call.op = "messages.create"
  /\ call.client.options.apiKey = "sk-ant"
  /\ call.params.messages = <<"hi", "again">>
  /\ ~Truthy(call.params.stream)
  /\ ret.value.content[1].text = "NOT_IMPLEMENTED"

(***************************************************************************)
(* Properties of the ambient flag over a process's life (StickySpec).       *)
(***************************************************************************)
\* C23: constructing the server and starting a parse call each leave the
\* ambient flag 'true'; no step takes it back from 'true'; while it is 'true'
\* getBestAvailableAIModel returns type 'claude' without throwing; and no
\* parse call returns AI_CLIENT_ERROR.
C23_FlagIsSticky ==
  [][/\ server' # "none" => processEnv'.CLAUDE_DESKTOP = "true"
     /\ (call = Idle /\ call'.op \in ParseOps)
          => /\ processEnv'.CLAUDE_DESKTOP = "true"
             /\ ~FailsWith(ret'.value, "AI_CLIENT_ERROR")
     /\ processEnv.CLAUDE_DESKTOP = "true" => processEnv'.CLAUDE_DESKTOP = "true"
     /\ (processEnv.CLAUDE_DESKTOP = "true" /\ call = Idle
         /\ call'.op = "getBestAvailableAIModel")
          => /\ ~ret'.threw
             /\ ret'.value.type = "claude"]_vars

\* no server was constructed: an earlier parse call set the flag, and the
\* selection is 'claude' against a research request with a research credential
C23_Witness ==
  /\ call.op = "getBestAvailableAIModel"
  /\ server = "none"
  /\ call.env.CLAUDE_DESKTOP = "true"
  /\ SessionEnv(call.session, "CLAUDE_DESKTOP") = "false"
  /\ "requiresResearch" \in DOMAIN call.options
  /\ call.options.requiresResearch = Bool(TRUE)
  /\ call.env.PERPLEXITY_API_KEY = "pplx"
  /\ call.env.ANTHROPIC_API_KEY = undefined
  /\ ~ret.threw
  /\ ret.value.type = "claude"

====
